---- MODULE Spec2Model ----
(***************************************************************************)
(* Model of the "bracket tree" reader and writer (bracket_tree.py):        *)
(* tokenize, parse, the Node API and dump.                                  *)
(*                                                                         *)
(* A Python string is a sequence of one-character strings.  A Node object  *)
(* is an entry of the heap, a sequence of records indexed by the object's  *)
(* identity; None is the identity 0.  The functions are run one loop        *)
(* iteration per step.  A run is the round trip parse, dump, parse of a     *)
(* text, or the construction of a tree through the Node API followed by    *)
(* dump and parse; or the three rename loops of main (kicad_liberator.py). *)
(***************************************************************************)
EXTENDS Integers, Sequences, FiniteSets, TLC

VARIABLES
    pc,         \* the statement a run is at
    round,      \* 1: the first parse of a run, 2: the parse of dump's output
    origin,     \* "text": the run starts from a text, "build": from a built tree,
                \* "tokens": a built tree for the token loop, "api", "main"
    text,       \* tokenize: data
    pos,        \* tokenize: the number of characters read from ios
    quote,      \* tokenize: quote
    word_token, \* tokenize: word_token
    word,       \* tokenize: word
    tokens,     \* tokenize: tokens (parse: tokens)
    ti,         \* parse: the number of tokens the for loop has consumed
    root,       \* parse: root
    node,       \* parse: node
    stack,      \* parse: stack
    heap,       \* the Node objects
    err,        \* the exception that ended the run, "" when none
    first,      \* the tree dump was called on, as a value
    dtokens,    \* dump: tokens
    di,         \* dump: the number of tokens the for loop has consumed
    string,     \* dump: string
    indent,     \* dump: indent
    newline,    \* dump: newline
    call,       \* the last call of the Node API: the method and its arguments
    res,        \* what that call returned
    calls,      \* the number of calls that made or changed a Node
    rpc,            \* main: the rename loop a run is at, "" outside main
    lib_symbols,    \* main: lib_symbols
    all_footprints, \* main: all_footprints
    all_models,     \* main: all_models
    symbol_map,     \* main: symbol_map, with the name of each Symbol it holds
    footprint_map,  \* main: footprint_map, with the name of each Footprint
    model_map,      \* main: model_map, with the file name of each path
    used_names,     \* main: used_names
    cur,            \* main: the loop variable symbol, footprint or model
    new_name,       \* main: new_name
    suffix_id       \* main: suffix_id

vars == <<pc, round, origin, text, pos, quote, word_token, word, tokens, ti,
          root, node, stack, heap, err, first, dtokens, di, string, indent,
          newline, call, res, calls, rpc, lib_symbols, all_footprints,
          all_models, symbol_map, footprint_map, model_map, used_names, cur,
          new_name, suffix_id>>

tokVars   == <<text, pos, quote, word_token, word, tokens>>
parseVars == <<ti, root, node, stack, heap>>
dumpVars  == <<dtokens, di, string, indent, newline>>
apiVars   == <<call, res, calls>>
renVars   == <<rpc, lib_symbols, all_footprints, all_models, symbol_map,
               footprint_map, model_map, used_names, cur, new_name, suffix_id>>

(***************************************************************************)
(* Bounds of the model.                                                    *)
(***************************************************************************)
MaxLen   == 5   \* longest input text, in characters
MaxItems == 2   \* most children (attributes and nodes) of a built tree
MaxCalls == 3   \* most calls of the Node API that make or change a Node

Chars  == {"(", ")", " ", "\n", "\"", "a"}
Values == {<<>>, <<"a">>, <<" ">>, <<"(">>, <<")">>, <<"\n">>, <<"\"">>}
ApiStrings == {<<"a">>, <<"b">>}   \* the keywords and attributes of the API calls

RECURSIVE Texts(_)
Texts(n) ==
    IF n = 0 THEN {<<>>}
    ELSE LET shorter == Texts(n - 1)
         IN  shorter \cup {Append(t, c) : t \in {s \in shorter : Len(s) = n - 1}, c \in Chars}

(***************************************************************************)
(* Token types and the Token namedtuple.                                   *)
(***************************************************************************)
TOKEN_WORD    == 0
TOKEN_KEYWORD == 1
TOKEN_OPEN    == 2
TOKEN_CLOSE   == 3

Token(type, data) == [type |-> type, data |-> data]

None == 0

\* no method of the Node API has been called
NoCall == [op |-> "", n |-> None, item |-> [isNode |-> FALSE, ref |-> None, str |-> <<>>],
           new |-> [isNode |-> FALSE, ref |-> None, str |-> <<>>], keyword |-> <<>>]

\* main is not running: its locals have no value
RenameIdle ==
    /\ rpc = ""
    /\ lib_symbols = {} /\ all_footprints = {} /\ all_models = {}
    /\ symbol_map = <<>> /\ footprint_map = <<>> /\ model_map = <<>>
    /\ used_names = {} /\ cur = None /\ new_name = <<>> /\ suffix_id = 0

\* str.isspace() on one character of Chars
IsSpace(c) == c \in {" ", "\n"}

(***************************************************************************)
(* tokenize                                                                *)
(***************************************************************************)
\* the locals of tokenize as the function is entered on data
TokenizeEntry(data) ==
    /\ text' = data
    /\ pos' = 0
    /\ quote' = FALSE
    /\ word_token' = TOKEN_KEYWORD
    /\ word' = <<>>
    /\ tokens' = <<>>

\* c = ios.read(1), for the iteration about to run
NextChar == text[pos + 1]

\* mutant: the opening quote emits the pending word as a token of its own
TokBeginQuote_FlushesWord ==
    /\ pc = "tokenize" /\ pos < Len(text)
    /\ ~quote /\ text[pos + 1] = "\""
    /\ quote' = TRUE
    /\ tokens' = IF Len(word) > 0 THEN Append(tokens, Token(word_token, word)) ELSE tokens
    /\ word_token' = IF Len(word) > 0 THEN TOKEN_WORD ELSE word_token
    /\ word' = <<>>
    /\ pos' = pos + 1
    /\ UNCHANGED <<pc, round, origin, text, err, first>>
    /\ UNCHANGED parseVars /\ UNCHANGED dumpVars /\ UNCHANGED apiVars /\ UNCHANGED renVars

\* if not quote and c == "\"": quote = True
TokBeginQuote ==
    /\ pc = "tokenize" /\ pos < Len(text)
    /\ ~quote /\ NextChar = "\""
    /\ quote' = TRUE
    /\ pos' = pos + 1
    /\ UNCHANGED <<pc, round, origin, text, word_token, word, tokens, err, first>>
    /\ UNCHANGED parseVars /\ UNCHANGED dumpVars /\ UNCHANGED apiVars /\ UNCHANGED renVars

\* mutant: the closing quote emits the buffered text only when there is some
TokEndQuote_SkipsEmpty ==
    /\ pc = "tokenize" /\ pos < Len(text)
    /\ quote /\ text[pos + 1] = "\""
    /\ quote' = FALSE
    /\ tokens' = IF Len(word) > 0 THEN Append(tokens, Token(word_token, word)) ELSE tokens
    /\ word_token' = TOKEN_WORD
    /\ word' = <<>>
    /\ pos' = pos + 1
    /\ UNCHANGED <<pc, round, origin, text, err, first>>
    /\ UNCHANGED parseVars /\ UNCHANGED dumpVars /\ UNCHANGED apiVars /\ UNCHANGED renVars

\* if quote and c == "\"": emit the quoted word
TokEndQuote ==
    /\ pc = "tokenize" /\ pos < Len(text)
    /\ quote /\ NextChar = "\""
    /\ quote' = FALSE
    /\ tokens' = Append(tokens, Token(word_token, word))
    /\ word_token' = TOKEN_WORD
    /\ word' = <<>>
    /\ pos' = pos + 1
    /\ UNCHANGED <<pc, round, origin, text, err, first>>
    /\ UNCHANGED parseVars /\ UNCHANGED dumpVars /\ UNCHANGED apiVars /\ UNCHANGED renVars

\* if quote: word += c
TokInsideQuote ==
    /\ pc = "tokenize" /\ pos < Len(text)
    /\ quote /\ NextChar # "\""
    /\ word' = Append(word, NextChar)
    /\ pos' = pos + 1
    /\ UNCHANGED <<pc, round, origin, text, quote, word_token, tokens, err, first>>
    /\ UNCHANGED parseVars /\ UNCHANGED dumpVars /\ UNCHANGED apiVars /\ UNCHANGED renVars

\* the tokens list after the pending word, if any, is emitted
FlushWord == IF Len(word) > 0 THEN Append(tokens, Token(word_token, word)) ELSE tokens

\* outside a quote, c in ["(", ")"]
TokBracket ==
    /\ pc = "tokenize" /\ pos < Len(text)
    /\ ~quote /\ NextChar \in {"(", ")"}
    /\ tokens' = Append(FlushWord,
                        Token(IF NextChar = "(" THEN TOKEN_OPEN ELSE TOKEN_CLOSE, <<NextChar>>))
    /\ word' = <<>>
    /\ word_token' = IF NextChar = "(" THEN TOKEN_KEYWORD ELSE TOKEN_WORD
    /\ pos' = pos + 1
    /\ UNCHANGED <<pc, round, origin, text, quote, err, first>>
    /\ UNCHANGED parseVars /\ UNCHANGED dumpVars /\ UNCHANGED apiVars /\ UNCHANGED renVars

\* mutant: white space sets the mode to TOKEN_WORD also when no word is pending
TokSpace_ResetsMode ==
    /\ pc = "tokenize" /\ pos < Len(text)
    /\ ~quote /\ IsSpace(text[pos + 1])
    /\ tokens' = FlushWord
    /\ word_token' = TOKEN_WORD
    /\ word' = <<>>
    /\ pos' = pos + 1
    /\ UNCHANGED <<pc, round, origin, text, quote, err, first>>
    /\ UNCHANGED parseVars /\ UNCHANGED dumpVars /\ UNCHANGED apiVars /\ UNCHANGED renVars

\* outside a quote, c.isspace()
TokSpace ==
    /\ pc = "tokenize" /\ pos < Len(text)
    /\ ~quote /\ IsSpace(NextChar)
    /\ tokens' = FlushWord
    /\ word_token' = IF Len(word) > 0 THEN TOKEN_WORD ELSE word_token
    /\ word' = <<>>
    /\ pos' = pos + 1
    /\ UNCHANGED <<pc, round, origin, text, quote, err, first>>
    /\ UNCHANGED parseVars /\ UNCHANGED dumpVars /\ UNCHANGED apiVars /\ UNCHANGED renVars

\* outside a quote, any other character: word += c
TokAppend ==
    /\ pc = "tokenize" /\ pos < Len(text)
    /\ ~quote /\ NextChar \notin {"\"", "(", ")"} /\ ~IsSpace(NextChar)
    /\ word' = Append(word, NextChar)
    /\ pos' = pos + 1
    /\ UNCHANGED <<pc, round, origin, text, quote, word_token, tokens, err, first>>
    /\ UNCHANGED parseVars /\ UNCHANGED dumpVars /\ UNCHANGED apiVars /\ UNCHANGED renVars

\* c == "": break, return tokens; parse goes on to build the tree
TokEnd ==
    /\ pc = "tokenize" /\ pos = Len(text)
    /\ pc' = "parse"
    /\ ti' = 0 /\ root' = None /\ node' = None /\ stack' = <<>> /\ heap' = <<>>
    /\ UNCHANGED <<round, origin, err, first>>
    /\ UNCHANGED tokVars /\ UNCHANGED dumpVars /\ UNCHANGED apiVars /\ UNCHANGED renVars

(***************************************************************************)
(* Node objects.  An element of Node.child is a reference to a Node or a   *)
(* str; both are held in one record shape so that any two compare.         *)
(***************************************************************************)
NodeItem(id) == [isNode |-> TRUE,  ref |-> id,   str |-> <<>>]
AttrItem(s)  == [isNode |-> FALSE, ref |-> None, str |-> s]

\* mutant: the constructor does not keep the parent it is given
NewNode_NoParent(parent, keyword, children) ==
    [parent |-> None, keyword |-> keyword, child |-> children]

\* Node.__init__
NewNode(parent, keyword, children) ==
    [parent |-> parent, keyword |-> keyword, child |-> children]

\* mutant: the child is put in front
ChildAppend_Prepend(h, n, item) == [h EXCEPT ![n].child = <<item>> \o @]

\* self.child.append(child), on the object n of heap h
ChildAppend(h, n, item) == [h EXCEPT ![n].child = Append(@, item)]

\* The tree below object id as a value: an attribute is a leaf that is not a
\* node, a node carries its keyword and its mixed sequence in order.
RECURSIVE TreeOf(_, _)
TreeOf(h, id) ==
    [isNode  |-> TRUE,
     keyword |-> h[id].keyword,
     child   |-> [i \in 1..Len(h[id].child) |->
                    IF h[id].child[i].isNode
                    THEN TreeOf(h, h[id].child[i].ref)
                    ELSE [isNode |-> FALSE, keyword |-> h[id].child[i].str, child |-> <<>>]]]

(***************************************************************************)
(* parse: the for loop over the tokens, one token per step.                *)
(***************************************************************************)
NextToken == tokens[ti + 1]

\* mutant: OPEN opens a context of its own on the stack
ParseOpen_PushesContext ==
    /\ pc = "parse" /\ ti < Len(tokens)
    /\ tokens[ti + 1].type = TOKEN_OPEN
    /\ stack' = Append(stack, node)
    /\ ti' = ti + 1
    /\ UNCHANGED <<pc, round, origin, root, node, heap, err, first>>
    /\ UNCHANGED tokVars /\ UNCHANGED dumpVars /\ UNCHANGED apiVars /\ UNCHANGED renVars

\* token.type == TOKEN_OPEN: pass
ParseOpen ==
    /\ pc = "parse" /\ ti < Len(tokens)
    /\ NextToken.type = TOKEN_OPEN
    /\ ti' = ti + 1
    /\ UNCHANGED <<pc, round, origin, root, node, stack, heap, err, first>>
    /\ UNCHANGED tokVars /\ UNCHANGED dumpVars /\ UNCHANGED apiVars /\ UNCHANGED renVars

\* token.type == TOKEN_KEYWORD: a new node, child of the current one or the root
ParseKeyword ==
    /\ pc = "parse" /\ ti < Len(tokens)
    /\ NextToken.type = TOKEN_KEYWORD
    /\ LET parent == node
           id     == Len(heap) + 1
           made   == Append(heap, NewNode(parent, NextToken.data, <<>>))
       IN  /\ stack' = Append(stack, node)
           /\ node' = id
           /\ IF parent # None
              THEN /\ heap' = ChildAppend(made, parent, NodeItem(id))
                   /\ ti' = ti + 1
                   /\ UNCHANGED <<pc, root, err>>
              ELSE /\ heap' = made
                   /\ IF root = None
                      THEN /\ root' = id
                           /\ ti' = ti + 1
                           /\ UNCHANGED <<pc, err>>
                      ELSE \* assert root is None
                           /\ pc' = "parse_failed"
                           /\ err' = "AssertionError"
                           /\ UNCHANGED <<root, ti>>
    /\ UNCHANGED <<round, origin, first>>
    /\ UNCHANGED tokVars /\ UNCHANGED dumpVars /\ UNCHANGED apiVars /\ UNCHANGED renVars

\* token.type == TOKEN_WORD: node.child.append(token.data)
ParseWord ==
    /\ pc = "parse" /\ ti < Len(tokens)
    /\ NextToken.type = TOKEN_WORD
    /\ IF node # None
       THEN /\ heap' = ChildAppend(heap, node, AttrItem(NextToken.data))
            /\ ti' = ti + 1
            /\ UNCHANGED <<pc, err>>
       ELSE \* None has no attribute child
            /\ pc' = "parse_failed"
            /\ err' = "AttributeError"
            /\ UNCHANGED <<heap, ti>>
    /\ UNCHANGED <<round, origin, root, node, stack, first>>
    /\ UNCHANGED tokVars /\ UNCHANGED dumpVars /\ UNCHANGED apiVars /\ UNCHANGED renVars

\* mutant: CLOSE makes the top of the stack current and leaves it on the stack
ParseClose_KeepsStack ==
    /\ pc = "parse" /\ ti < Len(tokens)
    /\ tokens[ti + 1].type = TOKEN_CLOSE
    /\ IF Len(stack) > 0
       THEN /\ node' = stack[Len(stack)]
            /\ ti' = ti + 1
            /\ UNCHANGED <<pc, err, stack>>
       ELSE /\ pc' = "parse_failed"
            /\ err' = "IndexError"
            /\ UNCHANGED <<node, stack, ti>>
    /\ UNCHANGED <<round, origin, root, heap, first>>
    /\ UNCHANGED tokVars /\ UNCHANGED dumpVars /\ UNCHANGED apiVars /\ UNCHANGED renVars

\* token.type == TOKEN_CLOSE: node = stack.pop()
ParseClose ==
    /\ pc = "parse" /\ ti < Len(tokens)
    /\ NextToken.type = TOKEN_CLOSE
    /\ IF Len(stack) > 0
       THEN /\ node' = stack[Len(stack)]
            /\ stack' = SubSeq(stack, 1, Len(stack) - 1)
            /\ ti' = ti + 1
            /\ UNCHANGED <<pc, err>>
       ELSE \* pop from empty list
            /\ pc' = "parse_failed"
            /\ err' = "IndexError"
            /\ UNCHANGED <<node, stack, ti>>
    /\ UNCHANGED <<round, origin, root, heap, first>>
    /\ UNCHANGED tokVars /\ UNCHANGED dumpVars /\ UNCHANGED apiVars /\ UNCHANGED renVars

\* mutant: the final assert is missing
ParseEnd_NoAssert ==
    /\ pc = "parse" /\ ti = Len(tokens)
    /\ pc' = "parsed"
    /\ UNCHANGED <<round, origin, first, err>>
    /\ UNCHANGED tokVars /\ UNCHANGED parseVars /\ UNCHANGED dumpVars /\ UNCHANGED apiVars /\ UNCHANGED renVars

\* after the loop: assert len(stack) == 0; return root
ParseEnd ==
    /\ pc = "parse" /\ ti = Len(tokens)
    /\ IF Len(stack) = 0
       THEN pc' = "parsed" /\ UNCHANGED err
       ELSE pc' = "parse_failed" /\ err' = "AssertionError"
    /\ UNCHANGED <<round, origin, first>>
    /\ UNCHANGED tokVars /\ UNCHANGED parseVars /\ UNCHANGED dumpVars /\ UNCHANGED apiVars /\ UNCHANGED renVars

(***************************************************************************)
(* dump                                                                    *)
(***************************************************************************)
\* dump.node_to_tokens: the tokens appended for the node id of heap h
RECURSIVE node_to_tokens(_, _)
RECURSIVE ChildTokens(_, _, _)
ChildTokens(h, items, i) ==
    IF i > Len(items) THEN <<>>
    ELSE (IF items[i].isNode
          THEN node_to_tokens(h, items[i].ref)
          ELSE <<Token(TOKEN_WORD, items[i].str)>>)
         \o ChildTokens(h, items, i + 1)

\* mutant: the traversal writes the attributes of a node before its sub-nodes
node_to_tokens_AttrsFirst(h, id) ==
    <<Token(TOKEN_OPEN, <<"(">>), Token(TOKEN_KEYWORD, h[id].keyword)>>
    \o ChildTokens(h, SelectSeq(h[id].child, LAMBDA c : ~c.isNode), 1)
    \o ChildTokens(h, SelectSeq(h[id].child, LAMBDA c : c.isNode), 1)
    \o <<Token(TOKEN_CLOSE, <<")">>)>>

node_to_tokens(h, id) ==
    <<Token(TOKEN_OPEN, <<"(">>), Token(TOKEN_KEYWORD, h[id].keyword)>>
    \o ChildTokens(h, h[id].child, 1)
    \o <<Token(TOKEN_CLOSE, <<")">>)>>

\* c in word
Contains(w, c) == \E i \in 1..Len(w) : w[i] = c

\* mutant: ")" is not tested
NeedsQuote_NoClose(w) == Contains(w, "(") \/ Contains(w, " ") \/ Len(w) = 0

\* the quoting test of the KEYWORD and WORD branches
NeedsQuote(w) ==
    Contains(w, "(") \/ Contains(w, ")") \/ Contains(w, " ") \/ Len(w) = 0

\* word, wrapped in double quotes when the test holds
Quoted(w) == IF NeedsQuote(w) THEN <<"\"">> \o w \o <<"\"">> ELSE w

\* " " * n
Spaces(n) == [i \in 1..n |-> " "]

\* a tree is in hand and dump is about to be called on it: the tree parse
\* returned in round 1, or the tree the caller has built
DumpCalled == IF origin = "text" THEN pc = "parsed" /\ round = 1 ELSE pc = "build"

\* dump(tree): the traversal into tokens; None has no attribute keyword
CallDump ==
    /\ DumpCalled
    /\ IF root = None
       THEN /\ pc' = "dump_failed"
            /\ err' = "AttributeError"
            /\ UNCHANGED <<first, dtokens>>
       ELSE /\ pc' = "render"
            /\ first' = TreeOf(heap, root)
            /\ dtokens' = node_to_tokens(heap, root)
            /\ UNCHANGED err
    /\ di' = 0 /\ string' = <<>> /\ indent' = 0 /\ newline' = FALSE
    /\ UNCHANGED <<round, origin>>
    /\ UNCHANGED tokVars /\ UNCHANGED parseVars /\ UNCHANGED apiVars /\ UNCHANGED renVars

DumpToken == dtokens[di + 1]

\* mutant: the OPEN branch leaves the pending-newline flag as it is
RenderOpen_KeepFlag ==
    /\ pc = "render" /\ di < Len(dtokens)
    /\ dtokens[di + 1].type = TOKEN_OPEN
    /\ string' = string \o <<"\n">> \o Spaces(indent) \o <<"(">>
    /\ di' = di + 1
    /\ UNCHANGED <<pc, round, origin, err, first, dtokens, indent, newline>>
    /\ UNCHANGED tokVars /\ UNCHANGED parseVars /\ UNCHANGED apiVars /\ UNCHANGED renVars

\* token.type == TOKEN_OPEN
RenderOpen ==
    /\ pc = "render" /\ di < Len(dtokens)
    /\ DumpToken.type = TOKEN_OPEN
    /\ string' = string \o <<"\n">> \o Spaces(indent) \o <<"(">>
    /\ newline' = FALSE
    /\ di' = di + 1
    /\ UNCHANGED <<pc, round, origin, err, first, dtokens, indent>>
    /\ UNCHANGED tokVars /\ UNCHANGED parseVars /\ UNCHANGED apiVars /\ UNCHANGED renVars

\* mutant: the KEYWORD branch indents by one column
RenderKeyword_IndentOne ==
    /\ pc = "render" /\ di < Len(dtokens)
    /\ dtokens[di + 1].type = TOKEN_KEYWORD
    /\ string' = string \o Quoted(dtokens[di + 1].data)
    /\ indent' = indent + 1
    /\ di' = di + 1
    /\ UNCHANGED <<pc, round, origin, err, first, dtokens, newline>>
    /\ UNCHANGED tokVars /\ UNCHANGED parseVars /\ UNCHANGED apiVars /\ UNCHANGED renVars

\* token.type == TOKEN_KEYWORD
RenderKeyword ==
    /\ pc = "render" /\ di < Len(dtokens)
    /\ DumpToken.type = TOKEN_KEYWORD
    /\ string' = string \o Quoted(DumpToken.data)
    /\ indent' = indent + 2
    /\ di' = di + 1
    /\ UNCHANGED <<pc, round, origin, err, first, dtokens, newline>>
    /\ UNCHANGED tokVars /\ UNCHANGED parseVars /\ UNCHANGED apiVars /\ UNCHANGED renVars

\* mutant: the WORD branch reads word[0] and so fails on the empty string
RenderWord_FailsOnEmpty ==
    /\ pc = "render" /\ di < Len(dtokens)
    /\ dtokens[di + 1].type = TOKEN_WORD
    /\ Len(dtokens[di + 1].data) > 0
    /\ string' = string \o <<" ">> \o Quoted(dtokens[di + 1].data)
    /\ di' = di + 1
    /\ UNCHANGED <<pc, round, origin, err, first, dtokens, indent, newline>>
    /\ UNCHANGED tokVars /\ UNCHANGED parseVars /\ UNCHANGED apiVars /\ UNCHANGED renVars

\* mutant: the WORD branch clears the pending-newline flag
RenderWord_ClearsFlag ==
    /\ pc = "render" /\ di < Len(dtokens)
    /\ dtokens[di + 1].type = TOKEN_WORD
    /\ string' = string \o <<" ">> \o Quoted(dtokens[di + 1].data)
    /\ newline' = FALSE
    /\ di' = di + 1
    /\ UNCHANGED <<pc, round, origin, err, first, dtokens, indent>>
    /\ UNCHANGED tokVars /\ UNCHANGED parseVars /\ UNCHANGED apiVars /\ UNCHANGED renVars

\* token.type == TOKEN_WORD
RenderWord ==
    /\ pc = "render" /\ di < Len(dtokens)
    /\ DumpToken.type = TOKEN_WORD
    /\ string' = string \o <<" ">> \o Quoted(DumpToken.data)
    /\ di' = di + 1
    /\ UNCHANGED <<pc, round, origin, err, first, dtokens, indent, newline>>
    /\ UNCHANGED tokVars /\ UNCHANGED parseVars /\ UNCHANGED apiVars /\ UNCHANGED renVars

\* token.type == TOKEN_CLOSE
RenderClose ==
    /\ pc = "render" /\ di < Len(dtokens)
    /\ DumpToken.type = TOKEN_CLOSE
    /\ indent' = indent - 2
    /\ string' = IF newline
                 THEN string \o <<"\n">> \o Spaces(indent - 2) \o <<")">>
                 ELSE string \o <<")">>
    /\ newline' = TRUE
    /\ di' = di + 1
    /\ UNCHANGED <<pc, round, origin, err, first, dtokens>>
    /\ UNCHANGED tokVars /\ UNCHANGED parseVars /\ UNCHANGED apiVars /\ UNCHANGED renVars

\* return string; the text is then read back: parse(string) enters tokenize
RenderEnd ==
    /\ pc = "render" /\ di = Len(dtokens)
    /\ pc' = "tokenize"
    /\ round' = 2
    /\ TokenizeEntry(string)
    /\ UNCHANGED <<origin, err, first>>
    /\ UNCHANGED parseVars /\ UNCHANGED dumpVars /\ UNCHANGED apiVars /\ UNCHANGED renVars

(***************************************************************************)
(* A caller that builds a tree and saves it, as the writers of the library *)
(* tables do: root = Node(None, kw); n.add(attribute);                     *)
(* n.add(Node(n, kw)); dump(root).                                         *)
(***************************************************************************)
RECURSIVE ItemCount(_, _)
ItemCount(h, i) == IF i > Len(h) THEN 0 ELSE Len(h[i].child) + ItemCount(h, i + 1)

\* mutant: the child is inserted before the last element
NodeAdd_BeforeLast(h, n, item) ==
    [h EXCEPT ![n].child = IF Len(@) = 0 THEN <<item>>
                           ELSE SubSeq(@, 1, Len(@) - 1) \o <<item, @[Len(@)]>>]

\* Node.add
NodeAdd(h, n, item) == ChildAppend(h, n, item)

\* n.add(s), s a str
BuildAttr ==
    /\ pc = "build" /\ ItemCount(heap, 1) < MaxItems
    /\ \E n \in 1..Len(heap), s \in Values :
          heap' = NodeAdd(heap, n, AttrItem(s))
    /\ UNCHANGED <<pc, round, origin, ti, root, node, stack, err, first>>
    /\ UNCHANGED tokVars /\ UNCHANGED dumpVars /\ UNCHANGED apiVars /\ UNCHANGED renVars

\* n.add(Node(n, kw))
BuildNode ==
    /\ pc = "build" /\ ItemCount(heap, 1) < MaxItems
    /\ \E n \in 1..Len(heap), kw \in Values :
          heap' = NodeAdd(Append(heap, NewNode(n, kw, <<>>)), n, NodeItem(Len(heap) + 1))
    /\ UNCHANGED <<pc, round, origin, ti, root, node, stack, err, first>>
    /\ UNCHANGED tokVars /\ UNCHANGED dumpVars /\ UNCHANGED apiVars /\ UNCHANGED renVars

(***************************************************************************)
(* The Node API, called in any order on any of the Nodes made so far.      *)
(***************************************************************************)
\* Node.children
children(h, n) ==
    LET nodes == SelectSeq(h[n].child, LAMBDA c : c.isNode)
    IN  [i \in 1..Len(nodes) |-> nodes[i].ref]

\* Node.attributes
attributes(h, n) ==
    LET strs == SelectSeq(h[n].child, LAMBDA c : ~c.isNode)
    IN  [i \in 1..Len(strs) |-> strs[i].str]

\* mutant: the keyword is not compared
findall_AnyKeyword(h, n, keyword) == children(h, n)

\* Node.findall
findall(h, n, keyword) == SelectSeq(children(h, n), LAMBDA c : h[c].keyword = keyword)

\* Node.find
find(h, n, keyword) ==
    LET r == findall(h, n, keyword)
    IN  IF Len(r) > 0 THEN r[1] ELSE None

\* child in self.child
In(item, seq) == \E i \in 1..Len(seq) : seq[i] = item

\* self.child.index(child)
IndexOf(item, seq) == CHOOSE i \in 1..Len(seq) : seq[i] = item /\ \A j \in 1..(i - 1) : seq[j] # item

\* a remove that deletes every occurrence of the child
NodeRemove_All(h, n, item) ==
    [h EXCEPT ![n].child = SelectSeq(@, LAMBDA c : c # item)]

\* Node.remove, past its assert
NodeRemove(h, n, item) ==
    LET idx == IndexOf(item, h[n].child)
    IN  [h EXCEPT ![n].child = SubSeq(@, 1, idx - 1) \o SubSeq(@, idx + 1, Len(@))]

\* a replace that overwrites every occurrence of the child
NodeReplace_All(h, n, item, new) ==
    [h EXCEPT ![n].child = [k \in 1..Len(@) |-> IF @[k] = item THEN new ELSE @[k]]]

\* Node.replace, past its assert
NodeReplace(h, n, item, new) ==
    LET idx == IndexOf(item, h[n].child)
    IN  [h EXCEPT ![n].child[idx] = new]

\* what a caller can pass as a child: a Node made so far or a str
ApiItems == {NodeItem(i) : i \in 1..Len(heap)} \cup {AttrItem(s) : s \in ApiStrings}

Call(op, n, item, new, keyword) ==
    [op |-> op, n |-> n, item |-> item, new |-> new, keyword |-> keyword]

apiFrame == <<round, origin, first>>

\* Node(parent, keyword) and Node(parent, keyword, [child]); the parent given
\* is None or the Node made last (no method reads the parent link)
ApiNew ==
    /\ pc = "api" /\ calls < MaxCalls
    /\ \E parent \in {None, Len(heap)}, kw \in ApiStrings,
          cs \in {<<>>} \cup {<<item>> : item \in ApiItems} :
          /\ heap' = Append(heap, NewNode(parent, kw, cs))
          /\ call' = Call("Node", parent, NoCall.item, NoCall.new, kw)
          /\ res' = Len(heap) + 1
    /\ calls' = calls + 1
    /\ UNCHANGED <<pc, err, ti, root, node, stack>>
    /\ UNCHANGED apiFrame /\ UNCHANGED renVars /\ UNCHANGED tokVars /\ UNCHANGED dumpVars

\* n.add(child)
ApiAdd ==
    /\ pc = "api" /\ calls < MaxCalls
    /\ \E n \in 1..Len(heap), item \in ApiItems :
          /\ heap' = NodeAdd(heap, n, item)
          /\ call' = Call("add", n, item, NoCall.new, <<>>)
    /\ res' = None
    /\ calls' = calls + 1
    /\ UNCHANGED <<pc, err, ti, root, node, stack>>
    /\ UNCHANGED apiFrame /\ UNCHANGED renVars /\ UNCHANGED tokVars /\ UNCHANGED dumpVars

\* n.remove(child)
ApiRemove ==
    /\ pc = "api" /\ calls < MaxCalls
    /\ \E n \in 1..Len(heap), item \in ApiItems :
          /\ call' = Call("remove", n, item, NoCall.new, <<>>)
          /\ IF In(item, heap[n].child)
             THEN heap' = NodeRemove(heap, n, item) /\ UNCHANGED <<pc, err>>
             ELSE \* assert child in self.child
                  pc' = "api_failed" /\ err' = "AssertionError" /\ UNCHANGED heap
    /\ res' = None
    /\ calls' = calls + 1
    /\ UNCHANGED <<ti, root, node, stack>>
    /\ UNCHANGED apiFrame /\ UNCHANGED renVars /\ UNCHANGED tokVars /\ UNCHANGED dumpVars

\* n.replace(child, new_child)
ApiReplace ==
    /\ pc = "api" /\ calls < MaxCalls
    /\ \E n \in 1..Len(heap), item \in ApiItems, new \in ApiItems :
          /\ call' = Call("replace", n, item, new, <<>>)
          /\ IF In(item, heap[n].child)
             THEN heap' = NodeReplace(heap, n, item, new) /\ UNCHANGED <<pc, err>>
             ELSE \* assert child in self.child
                  pc' = "api_failed" /\ err' = "AssertionError" /\ UNCHANGED heap
    /\ res' = None
    /\ calls' = calls + 1
    /\ UNCHANGED <<ti, root, node, stack>>
    /\ UNCHANGED apiFrame /\ UNCHANGED renVars /\ UNCHANGED tokVars /\ UNCHANGED dumpVars

\* n.findall(keyword)
ApiFindAll ==
    /\ pc = "api"
    /\ \E n \in 1..Len(heap), kw \in ApiStrings :
          /\ call' = Call("findall", n, NoCall.item, NoCall.new, kw)
          /\ res' = findall(heap, n, kw)
    /\ UNCHANGED <<pc, err, calls, ti, root, node, stack, heap>>
    /\ UNCHANGED apiFrame /\ UNCHANGED renVars /\ UNCHANGED tokVars /\ UNCHANGED dumpVars

\* n.find(keyword)
ApiFind ==
    /\ pc = "api"
    /\ \E n \in 1..Len(heap), kw \in ApiStrings :
          /\ call' = Call("find", n, NoCall.item, NoCall.new, kw)
          /\ res' = find(heap, n, kw)
    /\ UNCHANGED <<pc, err, calls, ti, root, node, stack, heap>>
    /\ UNCHANGED apiFrame /\ UNCHANGED renVars /\ UNCHANGED tokVars /\ UNCHANGED dumpVars

\* mutant: the view is the mixed sequence itself, not a list of its own
ViewCleared_Alias(h, n) == [h EXCEPT ![n].child = <<>>]

\* the heap after the caller has emptied a list that n.children or
\* n.attributes returned: the list was made by a comprehension, no Node holds it
ViewCleared(h, n) == h

\* n.children
ApiChildren ==
    /\ pc = "api"
    /\ \E n \in 1..Len(heap) :
          /\ call' = Call("children", n, NoCall.item, NoCall.new, <<>>)
          /\ res' = children(heap, n)
    /\ UNCHANGED <<pc, err, calls, ti, root, node, stack, heap>>
    /\ UNCHANGED apiFrame /\ UNCHANGED renVars /\ UNCHANGED tokVars /\ UNCHANGED dumpVars

\* n.attributes
ApiAttributes ==
    /\ pc = "api"
    /\ \E n \in 1..Len(heap) :
          /\ call' = Call("attributes", n, NoCall.item, NoCall.new, <<>>)
          /\ res' = attributes(heap, n)
    /\ UNCHANGED <<pc, err, calls, ti, root, node, stack, heap>>
    /\ UNCHANGED apiFrame /\ UNCHANGED renVars /\ UNCHANGED tokVars /\ UNCHANGED dumpVars

\* the caller changes the list it was returned: view.clear()
ApiClearView ==
    /\ pc = "api"
    /\ call.op \in {"children", "attributes"} /\ Len(res) > 0
    /\ call' = [call EXCEPT !.op = "clear"]
    /\ res' = <<>>
    /\ heap' = ViewCleared(heap, call.n)
    /\ UNCHANGED <<pc, err, calls, ti, root, node, stack>>
    /\ UNCHANGED apiFrame /\ UNCHANGED renVars /\ UNCHANGED tokVars /\ UNCHANGED dumpVars

InitApi ==
    /\ pc = "api" /\ round = 1 /\ origin = "api"
    /\ text = <<>>
    /\ pos = 0 /\ quote = FALSE /\ word_token = TOKEN_KEYWORD /\ word = <<>>
    /\ tokens = <<>>
    /\ ti = 0 /\ root = None /\ node = None /\ stack = <<>> /\ heap = <<>>
    /\ err = "" /\ first = <<>>
    /\ dtokens = <<>> /\ di = 0 /\ string = <<>> /\ indent = 0 /\ newline = FALSE
    /\ call = NoCall /\ res = None /\ calls = 0
    /\ RenameIdle

NextApi ==
    \/ ApiNew
    \/ ApiAdd
    \/ ApiRemove
    \/ ApiReplace
    \/ ApiFindAll
    \/ ApiFind
    \/ ApiChildren
    \/ ApiAttributes
    \/ ApiClearView

SpecApi == InitApi /\ [][NextApi]_vars

(***************************************************************************)
(* The runs.                                                               *)
(***************************************************************************)
InitText ==
    /\ pc = "tokenize" /\ round = 1 /\ origin = "text"
    /\ text \in Texts(MaxLen)
    /\ pos = 0 /\ quote = FALSE /\ word_token = TOKEN_KEYWORD /\ word = <<>>
    /\ tokens = <<>>
    /\ ti = 0 /\ root = None /\ node = None /\ stack = <<>> /\ heap = <<>>
    /\ err = "" /\ first = <<>>
    /\ dtokens = <<>> /\ di = 0 /\ string = <<>> /\ indent = 0 /\ newline = FALSE
    /\ call = NoCall /\ res = None /\ calls = 0
    /\ RenameIdle

\* root = Node(None, kw)
InitBuild ==
    /\ pc = "build" /\ round = 1 /\ origin = "build"
    /\ text = <<>>
    /\ pos = 0 /\ quote = FALSE /\ word_token = TOKEN_KEYWORD /\ word = <<>>
    /\ tokens = <<>>
    /\ ti = 0 /\ root = 1 /\ node = None /\ stack = <<>>
    /\ \E kw \in Values : heap = <<NewNode(None, kw, <<>>)>>
    /\ err = "" /\ first = <<>>
    /\ dtokens = <<>> /\ di = 0 /\ string = <<>> /\ indent = 0 /\ newline = FALSE
    /\ call = NoCall /\ res = None /\ calls = 0
    /\ RenameIdle

Init == InitText \/ InitBuild

Next ==
    \/ TokBeginQuote
    \/ TokEndQuote
    \/ TokInsideQuote
    \/ TokBracket
    \/ TokSpace
    \/ TokAppend
    \/ TokEnd
    \/ ParseOpen
    \/ ParseKeyword
    \/ ParseWord
    \/ ParseClose
    \/ ParseEnd
    \/ CallDump
    \/ RenderOpen
    \/ RenderKeyword
    \/ RenderWord
    \/ RenderClose
    \/ RenderEnd
    \/ BuildAttr
    \/ BuildNode

Spec == Init /\ [][Next]_vars

\* ---- the traversal of dump read by the token loop of parse ----

\* a tree in the making whose traversal is to be given to the token loop
InitTokens ==
    /\ pc = "build" /\ round = 1 /\ origin = "tokens"
    /\ text = <<>>
    /\ pos = 0 /\ quote = FALSE /\ word_token = TOKEN_KEYWORD /\ word = <<>>
    /\ tokens = <<>>
    /\ ti = 0 /\ root = 1 /\ node = None /\ stack = <<>>
    /\ \E kw \in Values : heap = <<NewNode(None, kw, <<>>)>>
    /\ err = "" /\ first = <<>>
    /\ dtokens = <<>> /\ di = 0 /\ string = <<>> /\ indent = 0 /\ newline = FALSE
    /\ call = NoCall /\ res = None /\ calls = 0
    /\ RenameIdle

\* tokens = []; node_to_tokens(tree, tokens), and these tokens are what the
\* loop of parse reads, with root, node and stack as parse sets them
TraverseToParse ==
    /\ pc = "build" /\ origin = "tokens"
    /\ first' = TreeOf(heap, root)
    /\ tokens' = node_to_tokens(heap, root)
    /\ pc' = "parse"
    /\ ti' = 0 /\ root' = None /\ node' = None /\ stack' = <<>> /\ heap' = <<>>
    /\ UNCHANGED <<round, origin, err, text, pos, quote, word_token, word>>
    /\ UNCHANGED dumpVars /\ UNCHANGED apiVars /\ UNCHANGED renVars

NextTokens ==
    \/ BuildAttr
    \/ BuildNode
    \/ TraverseToParse
    \/ ParseOpen
    \/ ParseKeyword
    \/ ParseWord
    \/ ParseClose
    \/ ParseEnd

SpecTokens == InitTokens /\ [][NextTokens]_vars

(***************************************************************************)
(* main of kicad_liberator.py: the three loops that give the used symbols, *)
(* footprints and 3D models their names in the new libraries.  A Symbol or  *)
(* Footprint is a record of a name and a library; a model is a path.  A    *)
(* Python set is iterated in an order of its own: the element a loop takes  *)
(* next is any element it has not taken yet.                                *)
(***************************************************************************)
MaxRenamed == 3   \* most symbols, most footprints and most models of a project

RenameLibs  == {"A", "B"}
RenameNames == {<<"x">>, <<"x", "_", "0", "1">>}
ModelPaths  == {<<"a", "/", "m", ".", "w">>, <<"b", "/", "m", ".", "w">>,
                <<"m", "_", "0", "1", ".", "w">>, <<"c", "/", "m", "_", "0", "1", ".", "w">>}

\* the subsets of S with at most n elements
UpTo(S, n) == {T \in SUBSET S : Cardinality(T) <= n}

\* "_{:02d}".format(k)
Format02(k) ==
    LET digit == <<"0", "1", "2", "3", "4", "5", "6", "7", "8", "9">>
    IN  IF k < 10 THEN <<"_", "0", digit[k + 1]>>
        ELSE <<"_", digit[(k \div 10) + 1], digit[(k % 10) + 1]>>

\* the last position of character c in s, 0 when there is none
LastIndex(s, c) ==
    IF \E i \in 1..Len(s) : s[i] = c
    THEN CHOOSE i \in 1..Len(s) : s[i] = c /\ \A j \in (i + 1)..Len(s) : s[j] # c
    ELSE 0

\* os.path.basename(path)
Basename(path) == SubSeq(path, LastIndex(path, "/") + 1, Len(path))

\* os.path.splitext(name) of a name without "/": the extension starts at the
\* last dot, unless only dots stand before it
SplitExt(name) ==
    LET d == LastIndex(name, ".")
    IN  IF d > 0 /\ \E i \in 1..(d - 1) : name[i] # "."
        THEN <<SubSeq(name, 1, d - 1), SubSeq(name, d, Len(name))>>
        ELSE <<name, <<>>>>

\* everything but the locals of main
RenameFrame ==
    /\ UNCHANGED <<pc, round, origin, err, first>>
    /\ UNCHANGED tokVars /\ UNCHANGED parseVars /\ UNCHANGED dumpVars /\ UNCHANGED apiVars

\* for symbol in lib_symbols: new_name = symbol.name; suffix_id = 0
SymbolNext ==
    /\ rpc = "symbols"
    /\ \E symbol \in lib_symbols \ DOMAIN symbol_map :
          /\ cur' = symbol
          /\ new_name' = symbol.name
    /\ suffix_id' = 0
    /\ rpc' = "symbols_while"
    /\ UNCHANGED <<lib_symbols, all_footprints, all_models, symbol_map, footprint_map,
                   model_map, used_names>>
    /\ RenameFrame

\* while new_name in used_names: the body
SymbolSuffix ==
    /\ rpc = "symbols_while" /\ new_name \in used_names
    /\ suffix_id' = suffix_id + 1
    /\ new_name' = cur.name \o Format02(suffix_id + 1)
    /\ UNCHANGED <<rpc, lib_symbols, all_footprints, all_models, symbol_map, footprint_map,
                   model_map, used_names, cur>>
    /\ RenameFrame

\* symbol_map[symbol] = Symbol(name=new_name, ...); used_names.add(new_name)
SymbolAssign ==
    /\ rpc = "symbols_while" /\ new_name \notin used_names
    /\ symbol_map' = symbol_map @@ (cur :> new_name)
    /\ used_names' = used_names \cup {new_name}
    /\ rpc' = "symbols"
    /\ UNCHANGED <<lib_symbols, all_footprints, all_models, footprint_map, model_map,
                   cur, new_name, suffix_id>>
    /\ RenameFrame

\* the symbol loop is over: footprint_map = {}; used_names = set()
SymbolsDone ==
    /\ rpc = "symbols" /\ lib_symbols \subseteq DOMAIN symbol_map
    /\ used_names' = {}
    /\ rpc' = "footprints"
    /\ UNCHANGED <<lib_symbols, all_footprints, all_models, symbol_map, footprint_map,
                   model_map, cur, new_name, suffix_id>>
    /\ RenameFrame

\* for footprint in all_footprints: new_name = footprint.name; suffix_id = 0
FootprintNext ==
    /\ rpc = "footprints"
    /\ \E footprint \in all_footprints \ DOMAIN footprint_map :
          /\ cur' = footprint
          /\ new_name' = footprint.name
    /\ suffix_id' = 0
    /\ rpc' = "footprints_while"
    /\ UNCHANGED <<lib_symbols, all_footprints, all_models, symbol_map, footprint_map,
                   model_map, used_names>>
    /\ RenameFrame

\* while new_name in used_names: the body
FootprintSuffix ==
    /\ rpc = "footprints_while" /\ new_name \in used_names
    /\ suffix_id' = suffix_id + 1
    /\ new_name' = cur.name \o Format02(suffix_id + 1)
    /\ UNCHANGED <<rpc, lib_symbols, all_footprints, all_models, symbol_map, footprint_map,
                   model_map, used_names, cur>>
    /\ RenameFrame

\* footprint_map[footprint] = Footprint(name=new_name, ...); used_names.add(new_name)
FootprintAssign ==
    /\ rpc = "footprints_while" /\ new_name \notin used_names
    /\ footprint_map' = footprint_map @@ (cur :> new_name)
    /\ used_names' = used_names \cup {new_name}
    /\ rpc' = "footprints"
    /\ UNCHANGED <<lib_symbols, all_footprints, all_models, symbol_map, model_map,
                   cur, new_name, suffix_id>>
    /\ RenameFrame

\* the footprint loop is over: model_map = {}; used_names = set()
FootprintsDone ==
    /\ rpc = "footprints" /\ all_footprints \subseteq DOMAIN footprint_map
    /\ used_names' = {}
    /\ rpc' = "models"
    /\ UNCHANGED <<lib_symbols, all_footprints, all_models, symbol_map, footprint_map,
                   model_map, cur, new_name, suffix_id>>
    /\ RenameFrame

\* for model in all_models: name = os.path.basename(model); new_name = name;
\* suffix = 0, which is not the suffix_id the while loop counts with
ModelNext ==
    /\ rpc = "models"
    /\ \E model \in all_models \ DOMAIN model_map :
          /\ cur' = model
          /\ new_name' = Basename(model)
    /\ rpc' = "models_while"
    /\ UNCHANGED <<lib_symbols, all_footprints, all_models, symbol_map, footprint_map,
                   model_map, used_names, suffix_id>>
    /\ RenameFrame

\* while new_name in used_names: the body
ModelSuffix ==
    /\ rpc = "models_while" /\ new_name \in used_names
    /\ suffix_id' = suffix_id + 1
    /\ LET parts == SplitExt(Basename(cur))
       IN  new_name' = parts[1] \o Format02(suffix_id + 1) \o parts[2]
    /\ UNCHANGED <<rpc, lib_symbols, all_footprints, all_models, symbol_map, footprint_map,
                   model_map, used_names, cur>>
    /\ RenameFrame

\* mutant: the model loop takes new_name without looking at used_names
ModelAssign_NoCheck ==
    /\ rpc = "models_while"
    /\ model_map' = model_map @@ (cur :> new_name)
    /\ used_names' = used_names \cup {new_name}
    /\ rpc' = "models"
    /\ UNCHANGED <<lib_symbols, all_footprints, all_models, symbol_map, footprint_map,
                   cur, new_name, suffix_id>>
    /\ RenameFrame

\* model_map[model] = os.path.join(model_lib, new_name); used_names.add(new_name)
ModelAssign ==
    /\ rpc = "models_while" /\ new_name \notin used_names
    /\ model_map' = model_map @@ (cur :> new_name)
    /\ used_names' = used_names \cup {new_name}
    /\ rpc' = "models"
    /\ UNCHANGED <<lib_symbols, all_footprints, all_models, symbol_map, footprint_map,
                   cur, new_name, suffix_id>>
    /\ RenameFrame

\* the model loop is over
ModelsDone ==
    /\ rpc = "models" /\ all_models \subseteq DOMAIN model_map
    /\ rpc' = "done"
    /\ UNCHANGED <<lib_symbols, all_footprints, all_models, symbol_map, footprint_map,
                   model_map, used_names, cur, new_name, suffix_id>>
    /\ RenameFrame

\* main before its first rename loop: symbol_map = {}; used_names = set().
\* A model is the model of a footprint (gather_footprints_and_identify_models,
\* identify_used_models), so there is no model without a footprint.
InitRename ==
    /\ pc = "main" /\ round = 1 /\ origin = "main"
    /\ text = <<>>
    /\ pos = 0 /\ quote = FALSE /\ word_token = TOKEN_KEYWORD /\ word = <<>>
    /\ tokens = <<>>
    /\ ti = 0 /\ root = None /\ node = None /\ stack = <<>> /\ heap = <<>>
    /\ err = "" /\ first = <<>>
    /\ dtokens = <<>> /\ di = 0 /\ string = <<>> /\ indent = 0 /\ newline = FALSE
    /\ call = NoCall /\ res = None /\ calls = 0
    /\ rpc = "symbols"
    /\ lib_symbols \in UpTo([name : RenameNames, lib : RenameLibs], MaxRenamed)
    /\ all_footprints \in UpTo([name : RenameNames, lib : RenameLibs], MaxRenamed)
    /\ all_models \in UpTo(ModelPaths, MaxRenamed)
    /\ all_models # {} => all_footprints # {}
    /\ symbol_map = <<>> /\ footprint_map = <<>> /\ model_map = <<>>
    /\ used_names = {} /\ cur = None /\ new_name = <<>> /\ suffix_id = 0

NextRename ==
    \/ SymbolNext
    \/ SymbolSuffix
    \/ SymbolAssign
    \/ SymbolsDone
    \/ FootprintNext
    \/ FootprintSuffix
    \/ FootprintAssign
    \/ FootprintsDone
    \/ ModelNext
    \/ ModelSuffix
    \/ ModelAssign
    \/ ModelsDone

SpecRename == InitRename /\ [][NextRename]_vars

(***************************************************************************)
(* What the claims are stated with.                                        *)
(***************************************************************************)
\* parse has returned (the round-1 or the round-2 call)
ParseReturned == pc = "parsed"

\* The brackets of text t outside quotes, read from position i with quote
\* flag q and d brackets open: some prefix closes more than it opens, or the
\* text ends with a bracket open.
RECURSIVE Unbalanced(_, _, _, _)
Unbalanced(t, i, q, d) ==
    IF i > Len(t) THEN d > 0
    ELSE IF t[i] = "\"" THEN Unbalanced(t, i + 1, ~q, d)
    ELSE IF q THEN Unbalanced(t, i + 1, q, d)
    ELSE IF t[i] = "(" THEN Unbalanced(t, i + 1, q, d + 1)
    ELSE IF t[i] = ")" THEN d = 0 \/ Unbalanced(t, i + 1, q, d - 1)
    ELSE Unbalanced(t, i + 1, q, d)

\* A structural violation among the tokens i..n of toks, with d contexts open
\* and seen telling whether a root exists; atEnd adds the leftover-context
\* check after token n.
RECURSIVE Violation(_, _, _, _, _, _)
Violation(toks, i, n, d, seen, atEnd) ==
    IF i > n THEN atEnd /\ d > 0
    ELSE LET t == toks[i].type
         IN  CASE t = TOKEN_OPEN    -> Violation(toks, i + 1, n, d, seen, atEnd)
               [] t = TOKEN_KEYWORD -> (d = 0 /\ seen) \/ Violation(toks, i + 1, n, d + 1, TRUE, atEnd)
               [] t = TOKEN_WORD    -> d = 0 \/ Violation(toks, i + 1, n, d, seen, atEnd)
               [] t = TOKEN_CLOSE   -> d = 0 \/ Violation(toks, i + 1, n, d - 1, seen, atEnd)

\* a value dump is said to quote
Special(w) == w = <<>> \/ \E i \in 1..Len(w) : w[i] \in {"(", ")", " "}

\* string s ends with e
EndsWith(s, e) == Len(e) <= Len(s) /\ SubSeq(s, Len(s) - Len(e) + 1, Len(s)) = e

\* the keywords and attributes of the tree value t
RECURSIVE ValuesOf(_)
ValuesOf(t) == {t.keyword} \cup UNION {ValuesOf(t.child[i]) : i \in 1..Len(t.child)}

HasQuoteChar(w) == \E i \in 1..Len(w) : w[i] = "\""

\* every special value of the tree value orig stands at the same position of got
RECURSIVE Recovers(_, _)
Recovers(orig, got) ==
    /\ Special(orig.keyword) => got.keyword = orig.keyword
    /\ \A i \in 1..Len(orig.child) :
          (\E w \in ValuesOf(orig.child[i]) : Special(w)) =>
             /\ i <= Len(got.child)
             /\ got.child[i].isNode = orig.child[i].isNode
             /\ Recovers(orig.child[i], got.child[i])

\* The children written for the node whose KEYWORD token precedes position i:
\* the WORD and KEYWORD tokens at its own nesting level, in order.  rel is the
\* nesting depth below that node, k the number of KEYWORD tokens before i.
RECURSIVE Level(_, _, _, _)
Level(toks, i, rel, k) ==
    IF i > Len(toks) THEN <<>>
    ELSE LET t == toks[i].type
         IN  CASE t = TOKEN_OPEN    -> Level(toks, i + 1, rel, k)
               [] t = TOKEN_KEYWORD -> (IF rel = 0 THEN <<NodeItem(k + 1)>> ELSE <<>>)
                                       \o Level(toks, i + 1, rel + 1, k + 1)
               [] t = TOKEN_WORD    -> (IF rel = 0 THEN <<AttrItem(toks[i].data)>> ELSE <<>>)
                                       \o Level(toks, i + 1, rel, k)
               [] t = TOKEN_CLOSE   -> IF rel = 0 THEN <<>> ELSE Level(toks, i + 1, rel - 1, k)

\* the position of the k-th KEYWORD token of toks
KeywordIndex(toks, k) ==
    CHOOSE i \in 1..Len(toks) :
        /\ toks[i].type = TOKEN_KEYWORD
        /\ Cardinality({j \in 1..i : toks[j].type = TOKEN_KEYWORD}) = k

WrittenChildren(toks, k) == Level(toks, KeywordIndex(toks, k) + 1, 0, k)

(***************************************************************************)
(* The claims.                                                             *)
(***************************************************************************)

\* C1: round trip.  When parse of a text returns a Node, parse of the dump of
\* that Node succeeds too and returns a structurally equal tree.
C1_RoundTrip ==
    (origin = "text" /\ round = 2 /\ pc \in {"parsed", "parse_failed"}) =>
        (pc = "parsed" /\ root # None /\ TreeOf(heap, root) = first)

\* C2: balance checking.  parse never returns on a text whose brackets
\* outside quotes are unbalanced.
C2_UnbalancedFails ==
    (origin = "text" /\ round = 1 /\ ParseReturned) => ~Unbalanced(text, 1, FALSE, 0)

\* C3: whenever parse returns, it returns a Node, and that Node has no parent.
C3_ReturnsOneRoot ==
    ParseReturned => (root # None /\ heap[root].parent = None)

\* C4: parse does not return when its tokens hold a structural violation (a
\* second root KEYWORD, a WORD or a CLOSE with no current node, contexts left
\* open at the end), and it stops at the violating token.
C4_ViolationsFail ==
    /\ ParseReturned => ~Violation(tokens, 1, Len(tokens), 0, FALSE, TRUE)
    /\ pc = "parse" => ~Violation(tokens, 1, ti, 0, FALSE, FALSE)

\* C4 witness: parse has failed on a second root KEYWORD.
C4_Witness ==
    /\ pc = "parse_failed" /\ ti < Len(tokens)
    /\ tokens[ti + 1].type = TOKEN_KEYWORD
    /\ Violation(tokens, 1, Len(tokens), 0, FALSE, TRUE)

\* C5: every failure of parse has one and the same error kind, the kind of
\* the leftover-context failure.
C5_OneErrorKind ==
    pc = "parse_failed" => err = "AssertionError"

\* C6: a keyword or attribute just rendered stands in the output in double
\* quotes if it is empty or contains "(", ")" or a space, and bare otherwise,
\* directly after "(" for a keyword and after one space for an attribute.
C6_QuotedIffSpecial ==
    (pc = "render" /\ di >= 1 /\ dtokens[di].type \in {TOKEN_KEYWORD, TOKEN_WORD}) =>
        LET w    == dtokens[di].data
            lead == IF dtokens[di].type = TOKEN_KEYWORD THEN <<"(">> ELSE <<" ">>
            out  == IF Special(w) THEN <<"\"">> \o w \o <<"\"">> ELSE w
        IN  EndsWith(string, lead \o out)

\* C6 witness: a keyword containing ")" and an attribute without any of the
\* characters have been rendered.
C6_Witness ==
    /\ pc = "render" /\ di >= 3
    /\ dtokens[2].type = TOKEN_KEYWORD /\ dtokens[2].data = <<")">>
    /\ dtokens[di].type = TOKEN_WORD /\ dtokens[di].data = <<"a">>

\* C7: for a tree none of whose values contains a double quote, parse of its
\* dump succeeds and holds every value that is empty or contains "(", ")" or
\* a space at the position it had, unchanged.
C7_QuotedValuesSurvive ==
    (/\ round = 2 /\ pc \in {"parsed", "parse_failed"}
     /\ \A w \in ValuesOf(first) : ~HasQuoteChar(w)
     /\ \E w \in ValuesOf(first) : Special(w)) =>
        (pc = "parsed" /\ root # None /\ Recovers(first, TreeOf(heap, root)))

\* C8: when parse returns, the mixed sequence of every node is the sequence
\* of the WORD and KEYWORD tokens written at that node's nesting level, in
\* the order of the tokens.
C8_OrderPreserved ==
    ParseReturned => \A k \in 1..Len(heap) : heap[k].child = WrittenChildren(tokens, k)

\* C8 witness: parse has returned a tree in which an attribute and a sub-node
\* are interleaved.
C8_Witness ==
    /\ ParseReturned
    /\ \E k \in 1..Len(heap) :
          /\ Len(heap[k].child) >= 2
          /\ heap[k].child[1].isNode # heap[k].child[2].isNode

\* the positions of node n's mixed sequence that hold a Node with keyword k
Matches(n, k) ==
    {i \in 1..Len(heap[n].child) :
        heap[n].child[i].isNode /\ heap[heap[n].child[i].ref].keyword = k}

\* the j-th smallest element of the set of numbers S
Nth(S, j) == CHOOSE i \in S : Cardinality({m \in S : m <= i}) = j

\* C9: findall(k) returns the direct child Nodes with keyword k, each once,
\* in the order of the mixed sequence, and nothing else; find(k) returns the
\* first of them, or None when there is none.
C9_FindContract ==
    /\ call.op = "findall" =>
          LET m == Matches(call.n, call.keyword)
          IN  /\ Len(res) = Cardinality(m)
              /\ \A j \in 1..Len(res) : res[j] = heap[call.n].child[Nth(m, j)].ref
    /\ call.op = "find" =>
          LET m == Matches(call.n, call.keyword)
          IN  res = IF m = {} THEN None ELSE heap[call.n].child[Nth(m, 1)].ref

\* C9 witness: findall has returned a direct child although the node also
\* holds an attribute equal to the keyword and a Node with that keyword
\* lies deeper.
C9_Witness ==
    /\ call.op = "findall" /\ Len(res) = 1
    /\ In(AttrItem(call.keyword), heap[call.n].child)
    /\ \E i \in 1..Len(heap[res[1]].child) :
          /\ heap[res[1]].child[i].isNode
          /\ heap[res[1]].child[i].ref # res[1]
          /\ heap[heap[res[1]].child[i].ref].keyword = call.keyword
          /\ ~In(heap[res[1]].child[i], heap[call.n].child)

\* C10 as stated: after n.add(c) with c a Node, the parent link of c is n.
C10_AddSetsParent ==
    (call.op = "add" /\ call.item.isNode) => heap[call.item.ref].parent = call.n

\* C10 as amended: add(child) appends child at the end of the node's mixed
\* sequence and changes nothing else: no parent link, that of child included.
C10_AddAppendsOnly ==
    [][(call'.op = "add" /\ calls' = calls + 1) =>
          heap' = [heap EXCEPT ![call'.n].child = Append(@, call'.item)]]_vars

\* C10 witness: a Node made with no parent has been added to a node that
\* already held a child, and its parent link is still None.
C10_Witness ==
    /\ call.op = "add" /\ call.item.isNode
    /\ Len(heap[call.n].child) >= 2
    /\ heap[call.n].child[Len(heap[call.n].child)] = call.item
    /\ heap[call.item.ref].parent = None

\* ---- Node.remove and Node.replace (C11, C12) ----

\* position i is the first one of seq that holds item
FirstAt(seq, item, i) ==
    /\ i \in 1..Len(seq) /\ seq[i] = item
    /\ \A j \in 1..(i - 1) : seq[j] # item

\* seq with position i taken out, the rest in order
Without(seq, i) == [k \in 1..(Len(seq) - 1) |-> IF k < i THEN seq[k] ELSE seq[k + 1]]

\* C11: n.remove(child) takes out the first occurrence of child only and
\* leaves every other element, and the order, as it was (no other node of the
\* heap changes either); when child is not among n's children the call fails
\* (the assert of l.48) and the children are unchanged.
C11_RemoveFirstOnly ==
    [][(call'.op = "remove" /\ calls' = calls + 1) =>
          LET n    == call'.n
              item == call'.item
              seq  == heap[n].child
          IN  IF \E i \in 1..Len(seq) : seq[i] = item
              THEN /\ pc' = "api"
                   /\ \E i \in 1..Len(seq) :
                         /\ FirstAt(seq, item, i)
                         /\ heap' = [heap EXCEPT ![n].child = Without(seq, i)]
              ELSE /\ pc' = "api_failed" /\ err' = "AssertionError"
                   /\ heap' = heap]_vars

\* C11 witness: a remove has returned and the child it took out is still
\* among the children, so the child occurred more than once.
C11_Witness ==
    /\ pc = "api" /\ call.op = "remove"
    /\ In(call.item, heap[call.n].child)

\* C12: n.replace(old, new) puts new at the position of the first occurrence
\* of old and leaves the length and every other position as they were, also
\* when old occurs several times; when old is not among n's children the call
\* fails (the assert of l.55) and the children are unchanged.
C12_ReplaceFirstOnly ==
    [][(call'.op = "replace" /\ calls' = calls + 1) =>
          LET n   == call'.n
              old == call'.item
              seq == heap[n].child
          IN  IF \E i \in 1..Len(seq) : seq[i] = old
              THEN /\ pc' = "api"
                   /\ Len(heap') = Len(heap)
                   /\ \A m \in 1..Len(heap) : m # n => heap'[m] = heap[m]
                   /\ heap'[n].keyword = heap[n].keyword
                   /\ heap'[n].parent = heap[n].parent
                   /\ Len(heap'[n].child) = Len(seq)
                   /\ \E i \in 1..Len(seq) :
                         /\ FirstAt(seq, old, i)
                         /\ heap'[n].child[i] = call'.new
                         /\ \A k \in 1..Len(seq) : k # i => heap'[n].child[k] = seq[k]
              ELSE /\ pc' = "api_failed" /\ err' = "AssertionError"
                   /\ heap' = heap]_vars

\* C12 witness: a replace by a different value has returned, the new value
\* is at the first position and the old one is still among the children: two
\* equal attribute strings, of which only the first was replaced.
C12_Witness ==
    /\ pc = "api" /\ call.op = "replace"
    /\ ~call.item.isNode /\ call.new # call.item
    /\ Len(heap[call.n].child) >= 2
    /\ heap[call.n].child[1] = call.new
    /\ heap[call.n].child[2] = call.item

\* ---- the layout dump gives a node (C13) ----

\* the number of tokens of the given type among toks[a..b]
CountType(toks, a, b, type) == Cardinality({j \in a..b : toks[j].type = type})

\* the OPEN token that the CLOSE token at position c closes
OpenOf(toks, c) ==
    CHOOSE o \in 1..c :
        /\ toks[o].type = TOKEN_OPEN
        /\ CountType(toks, o, c, TOKEN_OPEN) = CountType(toks, o, c, TOKEN_CLOSE)
        /\ \A p \in (o + 1)..c :
              CountType(toks, p, c, TOKEN_OPEN) # CountType(toks, p, c, TOKEN_CLOSE)

\* the node closed at position c has a nested sub-node
HasSubNode(toks, c) == \E j \in (OpenOf(toks, c) + 1)..(c - 1) : toks[j].type = TOKEN_OPEN

\* the number of nodes open around the token at position i
Ancestors(toks, i) ==
    CountType(toks, 1, i - 1, TOKEN_OPEN) - CountType(toks, 1, i - 1, TOKEN_CLOSE)

\* a value as dump is said to write it
Written(w) == IF Special(w) THEN <<"\"">> \o w \o <<"\"">> ELSE w

\* the text of a node without sub-nodes whose tokens are toks[o..c]: the
\* bracket, the keyword, a space before each attribute, the bracket
RECURSIVE LeafWords(_, _, _)
LeafWords(toks, i, c) ==
    IF i >= c THEN <<")">>
    ELSE <<" ">> \o Written(toks[i].data) \o LeafWords(toks, i + 1, c)

LeafText(toks, o, c) == <<"(">> \o Written(toks[o + 1].data) \o LeafWords(toks, o + 2, c)

\* dump has just rendered a CLOSE token
JustClosed == pc = "render" /\ di >= 1 /\ dtokens[di].type = TOKEN_CLOSE

\* C13 as stated: a node with no nested sub-node has its ")" on the same line
\* as its "(", directly after its last attribute or keyword; a node with a
\* nested sub-node has its ")" on a new line, after the indent of its "(".
C13_LeafOnOneLine ==
    JustClosed =>
        LET o == OpenOf(dtokens, di)
        IN  IF HasSubNode(dtokens, di)
            THEN EndsWith(string, <<"\n">> \o Spaces(2 * Ancestors(dtokens, o)) \o <<")">>)
            ELSE /\ EndsWith(string, LeafText(dtokens, o, di))
                 /\ ~Contains(LeafText(dtokens, o, di), "\n")

\* C13, amended: dump puts no line break of its own between the "(" and the
\* ")" of a node with no nested sub-node: the text from "(" to ")" is the
\* keyword and the attributes, one space before each attribute, and ")"
\* directly after the last of them (a value that holds a line break still
\* breaks the line); a node with a nested sub-node has its ")" on a new
\* line, after exactly the indent of its "(".
C13_CloseLayout ==
    JustClosed =>
        LET o == OpenOf(dtokens, di)
        IN  IF HasSubNode(dtokens, di)
            THEN EndsWith(string, <<"\n">> \o Spaces(2 * Ancestors(dtokens, o)) \o <<")">>)
            ELSE EndsWith(string, LeafText(dtokens, o, di))

\* C13 witness: the root, which holds a leaf sub-node that was closed on the
\* line of its "(" two columns in, and an attribute after it, has been closed
\* on a line of its own.
C13_Witness ==
    /\ JustClosed /\ di = Len(dtokens)
    /\ HasSubNode(dtokens, di)
    /\ dtokens[di - 1].type = TOKEN_WORD
    /\ dtokens[di - 2].type = TOKEN_CLOSE
    /\ EndsWith(string, <<"\n", ")">>)
    /\ \E k \in 1..Len(string) : SubSeq(string, k, k + 3) = <<"\n", " ", " ", "(">>

\* ---- dump is total (C14) ----

\* one step of dump's rendering loop, or its return
DumpStep == RenderOpen \/ RenderKeyword \/ RenderWord \/ RenderClose \/ RenderEnd

\* C14: dump is total on trees.  It fails only when it is given None, which
\* is no tree; while it renders, the next step of its loop can always be
\* taken (no token makes it fail), and every step consumes one of the
\* finitely many tokens of the tree until the string is returned, so the loop
\* ends after Len(dtokens) steps.
C14_DumpTotal ==
    /\ [](pc = "dump_failed" => root = None)
    /\ [](pc = "render" => di <= Len(dtokens) /\ ENABLED DumpStep)
    /\ [][pc = "render" =>
             \/ pc' = "render" /\ di' = di + 1 /\ dtokens' = dtokens
             \/ pc' = "tokenize" /\ di = Len(dtokens) /\ text' = string]_vars

\* C14 witness: dump has returned the string of a tree nested two deep whose
\* inner node has the empty keyword and no children.
C14_Witness ==
    /\ round = 2 /\ pc = "tokenize" /\ pos = 0 /\ origin = "build"
    /\ Len(first.child) = 1
    /\ first.child[1] = [isNode |-> TRUE, keyword |-> <<>>, child |-> <<>>]
    /\ EndsWith(text, <<"\n", " ", " ", "(", "\"", "\"", ")", "\n", ")">>)

\* ---- the tokenizer (C15 .. C18) ----

\* tokenize has returned: parse is about to read its first token
TokenizeReturned == pc = "parse" /\ ti = 0

\* C15: when the input ends with the word buffer non-empty, that word is the
\* last token of the output, typed by the mode the tokenizer ended in.
C15_EndFlushesWord ==
    (TokenizeReturned /\ ~quote /\ Len(word) > 0) =>
        /\ Len(tokens) > 0
        /\ tokens[Len(tokens)] = Token(word_token, word)

\* a token made from the word buffer
IsWordToken(t) == t.type \in {TOKEN_WORD, TOKEN_KEYWORD}

\* C16: a word token of the output is typed KEYWORD if and only if the token
\* immediately before it is an OPEN; every other word token, the one that
\* stands first in the output included, is typed WORD.
C16_KeywordIffAfterOpen ==
    \A i \in 1..Len(tokens) :
        IsWordToken(tokens[i]) =>
            (tokens[i].type = TOKEN_KEYWORD <=> (i > 1 /\ tokens[i - 1].type = TOKEN_OPEN))

\* what the code does keep: past the first token, KEYWORD is the type of
\* exactly the word tokens that follow an OPEN
KeywordAfterOpenPastFirst ==
    \A i \in 2..Len(tokens) :
        IsWordToken(tokens[i]) =>
            (tokens[i].type = TOKEN_KEYWORD <=> tokens[i - 1].type = TOKEN_OPEN)

\* the tokenizer processes a white-space character outside a quote
SpaceStep == pc = "tokenize" /\ pos' = pos + 1 /\ ~quote /\ IsSpace(text[pos + 1])

\* what a white-space character does to the tokens: the pending word, if
\* any, is emitted with the current mode; nothing is emitted otherwise, so no
\* token has an empty payload and a second white-space character in a row
\* emits nothing
SpaceEmits ==
    /\ tokens' = IF word # <<>>
                 THEN Append(tokens, [type |-> word_token, data |-> word])
                 ELSE tokens
    /\ (pos >= 1 /\ IsSpace(text[pos])) => tokens' = tokens

\* C17 as stated: after a white-space character outside a quote the word
\* buffer is empty and the mode is EXPECT_WORD (TOKEN_WORD); a run of white
\* space emits at most one token, the pending word, and no empty one.
C17_SpaceResetsMode ==
    [][SpaceStep =>
          /\ word' = <<>>
          /\ word_token' = TOKEN_WORD
          /\ SpaceEmits]_vars

\* C17, amended: after a white-space character outside a quote the word
\* buffer is empty; the mode is EXPECT_WORD when a word was pending and is
\* left as it was when none was (white space between "(" and the keyword
\* keeps EXPECT_KEYWORD); a run of white space emits at most one token, the
\* pending word, and no empty one.
C17_SpaceFlushesWord ==
    [][SpaceStep =>
          /\ word' = <<>>
          /\ word_token' = IF word # <<>> THEN TOKEN_WORD ELSE word_token
          /\ SpaceEmits]_vars

\* C17 witness: of the text "a (" and two white-space characters, the first
\* white space emitted the pending word and the run after "(" emitted
\* nothing and left the mode EXPECT_KEYWORD.
C17_Witness ==
    /\ pc = "tokenize" /\ round = 1 /\ pos = 5 /\ ~quote
    /\ text[1] = "a" /\ IsSpace(text[2]) /\ text[3] = "("
    /\ IsSpace(text[4]) /\ IsSpace(text[5])
    /\ tokens = <<Token(TOKEN_KEYWORD, <<"a">>), Token(TOKEN_OPEN, <<"(">>)>>
    /\ word = <<>> /\ word_token = TOKEN_KEYWORD

\* the tokenizer processes a character while the quoting flag is set
QuotedStep == pc = "tokenize" /\ pos' = pos + 1 /\ quote

\* C18: while the quoting flag is set, a character other than the double
\* quote ("(", ")" and white space included) is appended to the buffer and
\* emits no token; the closing double quote emits exactly one token, which
\* carries the buffered text (also the empty one) and the current mode's
\* type, and leaves the mode EXPECT_WORD, the buffer empty and the flag clear.
C18_QuotedTextOpaque ==
    [][QuotedStep =>
          IF text[pos + 1] = "\""
          THEN /\ tokens' = Append(tokens, [type |-> word_token, data |-> word])
               /\ word_token' = TOKEN_WORD /\ word' = <<>> /\ ~quote'
          ELSE /\ tokens' = tokens
               /\ word' = word \o <<text[pos + 1]>>
               /\ word_token' = word_token /\ quote']_vars

\* C18 witness: of the text  """("  the first pair of quotes gave a token
\* with the empty payload, typed by the initial mode, and the second a WORD
\* whose payload is the bracket.
C18_Witness ==
    /\ pc = "tokenize" /\ round = 1 /\ pos = 5 /\ ~quote
    /\ text = <<"\"", "\"", "\"", "(", "\"">>
    /\ tokens = <<Token(TOKEN_KEYWORD, <<>>), Token(TOKEN_WORD, <<"(">>)>>
    /\ word = <<>> /\ word_token = TOKEN_WORD

\* ---- the rendering pass of dump (C19, C20) ----

\* dump has just rendered a WORD token
JustWord == pc = "render" /\ di >= 1 /\ dtokens[di].type = TOKEN_WORD

\* dump has just rendered the CLOSE token that directly follows an attribute
ClosedAfterWord == JustClosed /\ dtokens[di - 1].type = TOKEN_WORD

\* C19 as stated: after a WORD token has been rendered the pending-newline
\* flag is not set, and a ")" that directly follows an attribute is appended
\* on the line of that attribute, directly after it.
C19_WordClearsFlag ==
    /\ JustWord => ~newline
    /\ ClosedAfterWord => EndsWith(string, Written(dtokens[di - 1].data) \o <<")">>)

\* C19, amended: a WORD token leaves the pending-newline flag as it was.  A
\* ")" that directly follows an attribute is appended directly after it when
\* no nested sub-node was closed earlier in the same node, and on a new line,
\* after the indent of the node's "(", when one was.
C19_WordKeepsFlag ==
    /\ [][(pc = "render" /\ di' = di + 1 /\ dtokens[di + 1].type = TOKEN_WORD) =>
             newline' = newline]_vars
    /\ [](ClosedAfterWord =>
             EndsWith(string,
                      IF HasSubNode(dtokens, di)
                      THEN Written(dtokens[di - 1].data) \o <<"\n">>
                           \o Spaces(2 * Ancestors(dtokens, OpenOf(dtokens, di))) \o <<")">>
                      ELSE Written(dtokens[di - 1].data) \o <<")">>))

\* C19 witness: the last attribute of the root has been rendered after a
\* nested sub-node was closed, and the flag is still set.
C19_Witness ==
    /\ JustWord /\ newline
    /\ di = Len(dtokens) - 1
    /\ dtokens[di - 1].type = TOKEN_CLOSE

\* the nodes open once the first i tokens are rendered: a node is open from
\* its KEYWORD token, where dump indents, to its CLOSE token
OpenNodes(toks, i) ==
    CountType(toks, 1, i, TOKEN_KEYWORD) - CountType(toks, 1, i, TOKEN_CLOSE)

\* C20: while dump renders, indent is never negative and is twice the number
\* of nodes open at that token; it is 0 once the last token is rendered and
\* stays 0 when dump has returned; the "(" of every node starts a new line
\* and has exactly 2 * (number of its ancestors) spaces before it.
C20_IndentInvariant ==
    /\ pc = "render" =>
          /\ indent >= 0
          /\ indent = 2 * OpenNodes(dtokens, di)
          /\ di = Len(dtokens) => indent = 0
          /\ (di >= 1 /\ dtokens[di].type = TOKEN_OPEN) =>
                EndsWith(string, <<"\n">> \o Spaces(2 * Ancestors(dtokens, di)) \o <<"(">>)
    /\ round = 2 => indent = 0

\* C20 witness: the "(" of a node with two ancestors has been rendered on a
\* new line after four spaces, with indent 4.
C20_Witness ==
    /\ pc = "render" /\ di >= 1 /\ dtokens[di].type = TOKEN_OPEN
    /\ Ancestors(dtokens, di) = 2 /\ indent = 4
    /\ EndsWith(string, <<"\n", " ", " ", " ", " ", "(">>)

\* ---- traversal and token loop (C21) ----

\* the pre-order traversal of the tree value t: OPEN, KEYWORD, one WORD per
\* attribute and the traversal of each sub-node, in the mixed order, CLOSE
RECURSIVE TraversalOf(_)
RECURSIVE TraversalOfAll(_, _)
TraversalOfAll(cs, i) ==
    IF i > Len(cs) THEN <<>>
    ELSE (IF cs[i].isNode
          THEN TraversalOf(cs[i])
          ELSE <<[type |-> TOKEN_WORD, data |-> cs[i].keyword]>>)
         \o TraversalOfAll(cs, i + 1)

TraversalOf(t) ==
    <<[type |-> TOKEN_OPEN, data |-> <<"(">>], [type |-> TOKEN_KEYWORD, data |-> t.keyword]>>
    \o TraversalOfAll(t.child, 1)
    \o <<[type |-> TOKEN_CLOSE, data |-> <<")">>]>>

\* C21: the tokens that the pre-order traversal makes of a tree are accepted
\* by the token loop of parse (it never fails on them), and the tree the loop
\* returns is structurally equal to the tree that was traversed.
C21_TraversalMirrorsParser ==
    (origin = "tokens" /\ pc # "build") =>
        /\ pc # "parse_failed"
        /\ tokens = TraversalOf(first)
        /\ pc = "parsed" => (root # None /\ TreeOf(heap, root) = first)

\* C21 witness: a tree whose root holds a sub-node and, after it, an
\* attribute has been rebuilt from its traversal.
C21_Witness ==
    /\ origin = "tokens" /\ pc = "parsed"
    /\ Len(first.child) = 2
    /\ first.child[1].isNode /\ ~first.child[2].isNode
    /\ TreeOf(heap, root) = first

\* ---- equality of nodes (C22) ----

\* the nodes a and b of heap h have the same keyword and, to depth d, equal
\* children in the same order
RECURSIVE StructEq(_, _, _, _)
StructEq(h, a, b, d) ==
    \/ d = 0
    \/ /\ h[a].keyword = h[b].keyword
       /\ Len(h[a].child) = Len(h[b].child)
       /\ \A i \in 1..Len(h[a].child) :
             LET x == h[a].child[i]
                 y == h[b].child[i]
             IN  IF x.isNode /\ y.isNode
                 THEN StructEq(h, x.ref, y.ref, d - 1)
                 ELSE x = y

\* C22: a Node that is structurally equal to a child of n passes the
\* membership test of remove and replace (child in self.child) on n, also
\* when it is another object than that child.
C22_StructuralMembership ==
    \A n \in 1..Len(heap), m \in 1..Len(heap) :
        (\E i \in 1..Len(heap[n].child) :
            /\ heap[n].child[i].isNode
            /\ StructEq(heap, heap[n].child[i].ref, m, Len(heap)))
        => In(NodeItem(m), heap[n].child)

\* ---- the tree parse returns (C23) ----

\* the places <<n, i>> where the node id stands in a mixed sequence of heap h
Occurrences(h, id) ==
    UNION {{<<n, i>> : i \in {j \in 1..Len(h[n].child) : h[n].child[j] = NodeItem(id)}} :
           n \in 1..Len(h)}

\* following the parent links from id reaches r within d steps
RECURSIVE ReachesRoot(_, _, _, _)
ReachesRoot(h, id, r, d) ==
    \/ id = r
    \/ /\ d > 0 /\ id # None /\ h[id].parent # None
       /\ ReachesRoot(h, h[id].parent, r, d - 1)

\* C23: in a tree returned by parse the root has no parent and stands in no
\* mixed sequence; every other Node stands exactly once in exactly one mixed
\* sequence, that of the node its parent link names; the parent links lead
\* from every node to the root in fewer steps than there are nodes, so there
\* is no cycle.
C23_ParentLinksFormTree ==
    (pc = "parsed" /\ root # None) =>
        /\ heap[root].parent = None
        /\ Occurrences(heap, root) = {}
        /\ \A id \in 1..Len(heap) :
              /\ id # root =>
                    /\ Cardinality(Occurrences(heap, id)) = 1
                    /\ \A o \in Occurrences(heap, id) : heap[id].parent = o[1]
              /\ ReachesRoot(heap, id, root, Len(heap) - 1)

\* C23 witness: parse has returned a tree three nodes deep.
C23_Witness ==
    /\ pc = "parsed" /\ root = 1 /\ Len(heap) = 3
    /\ heap[2].parent = 1 /\ heap[3].parent = 2
    /\ heap[2].child = <<NodeItem(3)>>

\* ---- the views children and attributes (C24) ----

\* the positions of n's mixed sequence that hold a Node (or a string)
ViewPositions(n, nodes) == {i \in 1..Len(heap[n].child) : heap[n].child[i].isNode = nodes}

\* C24: after any add, remove and replace, children(n) is the Nodes and
\* attributes(n) the strings of n's mixed sequence as it is now, each in the
\* order of the mixed sequence, and every element is in one of the two; this
\* is what the two properties return, and emptying a returned list leaves
\* every node as it was.
C24_ViewsAreDerived ==
    /\ [](\A n \in 1..Len(heap) :
             LET ns == ViewPositions(n, TRUE)
                 ss == ViewPositions(n, FALSE)
             IN  /\ Len(children(heap, n)) = Cardinality(ns)
                 /\ Len(attributes(heap, n)) = Cardinality(ss)
                 /\ Cardinality(ns) + Cardinality(ss) = Len(heap[n].child)
                 /\ \A j \in 1..Cardinality(ns) :
                       children(heap, n)[j] = heap[n].child[Nth(ns, j)].ref
                 /\ \A j \in 1..Cardinality(ss) :
                       attributes(heap, n)[j] = heap[n].child[Nth(ss, j)].str)
    /\ [](call.op = "children" => res = children(heap, call.n))
    /\ [](call.op = "attributes" => res = attributes(heap, call.n))
    /\ [][(call'.op = "clear" /\ call.op # "clear") => heap' = heap]_vars

\* C24 witness: a node holds a string and, after it, a Node; the list that
\* children returned for it has been emptied and the node still holds both.
C24_Witness ==
    /\ call.op = "clear" /\ res = <<>>
    /\ Len(heap[call.n].child) = 2
    /\ ~heap[call.n].child[1].isNode /\ heap[call.n].child[2].isNode
    /\ Len(children(heap, call.n)) = 1

\* ---- the context stack of parse (C25, C26) ----

\* the number of ancestors of node id: the length of its chain of parent links
RECURSIVE AncestorCount(_, _, _)
AncestorCount(h, id, d) ==
    IF d = 0 \/ h[id].parent = None THEN 0
    ELSE 1 + AncestorCount(h, h[id].parent, d - 1)

\* C25: after each token that parse has processed without failing, and when
\* it has returned: if current is a Node, the top of the stack is current's
\* parent (None for the root) and the stack is 1 + (number of current's
\* ancestors) long; if current is None, the stack is empty.
C25_StackInvariant ==
    pc \in {"parse", "parsed"} =>
        IF node # None
        THEN /\ Len(stack) = 1 + AncestorCount(heap, node, Len(heap))
             /\ stack[Len(stack)] = heap[node].parent
        ELSE stack = <<>>

\* C25 witness: current is a node with two ancestors; the stack holds None,
\* the root and the parent.
C25_Witness ==
    /\ pc = "parse" /\ node = 3
    /\ stack = <<None, 1, 2>>
    /\ heap[3].parent = 2 /\ heap[2].parent = 1

\* toks without its OPEN tokens
NoOpen(toks) == SelectSeq(toks, LAMBDA t : t.type # TOKEN_OPEN)

\* C26: when parse has succeeded, the tokens hold as many KEYWORD as CLOSE
\* tokens and no prefix of them holds more CLOSE than KEYWORD tokens.  The
\* OPEN tokens do not count: processing one changes nothing of root, current,
\* stack or the nodes and cannot fail, and the tree returned is the one
\* written by the tokens that are left when every OPEN is taken out.
C26_KeywordsBalanceCloses ==
    /\ [](pc = "parsed" =>
             /\ CountType(tokens, 1, Len(tokens), TOKEN_KEYWORD)
                   = CountType(tokens, 1, Len(tokens), TOKEN_CLOSE)
             /\ \A p \in 1..Len(tokens) :
                   CountType(tokens, 1, p, TOKEN_CLOSE) <= CountType(tokens, 1, p, TOKEN_KEYWORD)
             /\ Len(heap) = CountType(tokens, 1, Len(tokens), TOKEN_KEYWORD)
             /\ \A k \in 1..Len(heap) :
                   /\ heap[k].keyword = NoOpen(tokens)[KeywordIndex(NoOpen(tokens), k)].data
                   /\ heap[k].child = WrittenChildren(NoOpen(tokens), k))
    /\ [][(pc = "parse" /\ ti' = ti + 1 /\ tokens[ti + 1].type = TOKEN_OPEN) =>
             /\ pc' = "parse"
             /\ UNCHANGED <<root, node, stack, heap, err>>]_vars

\* C26 witness: parse has returned a node for tokens with two OPEN tokens,
\* one KEYWORD and one CLOSE.
C26_Witness ==
    /\ pc = "parsed" /\ round = 1 /\ root # None
    /\ CountType(tokens, 1, Len(tokens), TOKEN_OPEN) = 2
    /\ CountType(tokens, 1, Len(tokens), TOKEN_KEYWORD) = 1
    /\ CountType(tokens, 1, Len(tokens), TOKEN_CLOSE) = 1

\* ---- bare text next to quoted text (C27) ----

\* a character that belongs to a bare word
IsBare(c) == c \notin {"\"", "(", ")", " ", "\n"}

\* the tokenizer has just processed a closing double quote
JustEndedQuote == pc = "tokenize" /\ pos >= 2 /\ text[pos] = "\"" /\ ~quote

\* the position of the double quote that opened the quote closed at position p
OpeningQuote(t, p) == CHOOSE j \in 1..(p - 1) :
    t[j] = "\"" /\ \A m \in (j + 1)..(p - 1) : t[m] # "\""

\* the bare characters that stand immediately before position q of t
BareBefore(t, q) ==
    LET s == CHOOSE j \in 1..q :
                /\ \A m \in j..(q - 1) : IsBare(t[m])
                /\ (j > 1 => ~IsBare(t[j - 1]))
    IN  SubSeq(t, s, q - 1)

\* C27: a double quote that opens a quote emits no token and keeps the word
\* buffer, so the token emitted at the closing quote carries the bare
\* characters that stood immediately before the opening quote followed by
\* the quoted text; a bare character directly after a closing quote starts a
\* new word, with the quoted token already emitted.
C27_BareJoinsQuoted ==
    /\ [][(pc = "tokenize" /\ pos' = pos + 1 /\ ~quote /\ text[pos + 1] = "\"") =>
             /\ tokens' = tokens /\ word' = word /\ word_token' = word_token
             /\ quote']_vars
    /\ [](JustEndedQuote =>
             /\ Len(tokens) > 0
             /\ tokens[Len(tokens)].data =
                   BareBefore(text, OpeningQuote(text, pos))
                   \o SubSeq(text, OpeningQuote(text, pos) + 1, pos - 1)
             /\ word = <<>>)
    /\ [][(JustEndedQuote /\ pos' = pos + 1 /\ IsBare(text[pos + 1])) =>
             /\ tokens' = tokens /\ word' = <<text[pos + 1]>>]_vars

\* C27 witness: of the text  a"a"a  the first a and the quoted a were
\* emitted as one token, and the last a is the start of a new word.
C27_Witness ==
    /\ pc = "tokenize" /\ round = 1 /\ pos = 5
    /\ text = <<"a", "\"", "a", "\"", "a">>
    /\ tokens = <<Token(TOKEN_KEYWORD, <<"a", "a">>)>>
    /\ word = <<"a">> /\ word_token = TOKEN_WORD

\* ---- the rename maps of main (C28) ----

\* the map m gives no two of its keys the same name
CollisionFree(m) == \A a \in DOMAIN m, b \in DOMAIN m : a # b => m[a] # m[b]

\* the names the map m has given
NamesOf(m) == {m[a] : a \in DOMAIN m}

\* the map the rename loops are filling
CurrentMap ==
    IF rpc \in {"symbols", "symbols_while"} THEN symbol_map
    ELSE IF rpc \in {"footprints", "footprints_while"} THEN footprint_map
    ELSE model_map

\* C28: at every point of the three rename loops each map gives pairwise
\* distinct new names, also to inputs that share a base name; used_names is
\* the set of names the map being filled has given, and the name a loop
\* assigns is never one that is in used_names.
C28_RenameMapsCollisionFree ==
    /\ [](rpc # "" =>
             /\ CollisionFree(symbol_map)
             /\ CollisionFree(footprint_map)
             /\ CollisionFree(model_map)
             /\ rpc # "done" => used_names = NamesOf(CurrentMap))
    /\ [][(rpc # "" /\ <<symbol_map, footprint_map, model_map>>'
                         # <<symbol_map, footprint_map, model_map>>) =>
             /\ new_name \notin used_names
             /\ used_names' = used_names \cup {new_name}
             /\ CurrentMap' = CurrentMap @@ (cur :> new_name)]_vars

\* C28 witness: the loops are over; two symbols named x and one named x_01
\* have three names, and two models with the file name m.w have two, the
\* second with the suffix 02 because suffix_id still held the 1 of the
\* footprint loop.
C28_Witness ==
    /\ rpc = "done"
    /\ NamesOf(symbol_map) = {<<"x">>, <<"x", "_", "0", "1">>,
                              <<"x", "_", "0", "1", "_", "0", "1">>}
    /\ Cardinality(NamesOf(footprint_map)) = 2
    /\ NamesOf(model_map) = {<<"m", ".", "w">>, <<"m", "_", "0", "2", ".", "w">>}

====
